---- MODULE Spec2Model ----
(***************************************************************************)
(* Model of the Premier League metrics exporter (src/exporter/main.go).    *)
(*                                                                         *)
(* main.go holds three successive versions of the exporter, one after the  *)
(* other, each a complete `package main`:                                  *)
(*   "A"  lines   1-276  retry loop inside scrapeFBref, reset after parse  *)
(*   "B"  lines 278-521  single GET, tables looked up by fixed id          *)
(*   "C"  lines 523-739  fetchHTML + extractCommentTables, reset first     *)
(* The variable `variant` fixes which of them the process runs.            *)
(*                                                                         *)
(* Text is a sequence of one-character strings, so that strings.TrimSpace  *)
(* and strconv.ParseFloat are computed and not assumed.                    *)
(***************************************************************************)
EXTENDS Integers, Sequences, FiniteSets, TLC

\* ------------------------------------------------------------------ bounds
\* number of scrape cycles the model lets the process start
MaxCycles == 3
\* number of times the model lets the hourly ticker fire
MaxTicks == 3

\* ------------------------------------------------- program constants
\* for attempt := 1; attempt <= 3; attempt++
MaxAttempts == 3
\* time.Duration(attempt*2) * time.Second
BackoffFactor == 2
\* time.NewTicker keeps a channel of capacity 1
TickerBuffer == 1

Variants == {"A", "B", "C"}
Goroutines == {"main", "ticker"}

PlayerFamilies == {"topScorer", "topAssists", "cleanSheets"}
TeamFamilies == {"teamPoints", "teamGoalsFor", "teamGoalsAgainst",
                 "teamWins", "teamDraws", "teamLosses"}
Families == PlayerFamilies \cup TeamFamilies

\* mutant of ResetOrder: cleanSheets.Reset() is left out
ResetOrderNoKeepers ==
  <<"topScorer", "topAssists", "teamPoints", "teamGoalsFor",
    "teamGoalsAgainst", "teamWins", "teamDraws", "teamLosses">>

\* the order of the nine Reset() calls
ResetOrder ==
  <<"topScorer", "topAssists", "cleanSheets", "teamPoints", "teamGoalsFor",
    "teamGoalsAgainst", "teamWins", "teamDraws", "teamLosses">>

\* ------------------------------------------------------------ text
Digits == <<"0", "1", "2", "3", "4", "5", "6", "7", "8", "9">>

IsSpace(c) == c \in {" ", "\t", "\n"}

RECURSIVE TrimLeft(_)
TrimLeft(s) ==
  IF s = <<>> THEN <<>>
  ELSE IF IsSpace(Head(s)) THEN TrimLeft(Tail(s)) ELSE s

RECURSIVE TrimRight(_)
TrimRight(s) ==
  IF s = <<>> THEN <<>>
  ELSE IF IsSpace(s[Len(s)]) THEN TrimRight(SubSeq(s, 1, Len(s) - 1)) ELSE s

\* strings.TrimSpace
TrimSpace(s) == TrimRight(TrimLeft(s))

DigitValue(c) == CHOOSE i \in 0..9 : Digits[i + 1] = c

IsDigit(c) == \E i \in 1..10 : Digits[i] = c

RECURSIVE DecimalValue(_)
DecimalValue(s) ==
  IF s = <<>> THEN 0
  ELSE 10 * DecimalValue(SubSeq(s, 1, Len(s) - 1)) + DigitValue(s[Len(s)])

\* strconv.ParseFloat(s, 64) on the texts of the model: a non-empty run of
\* decimal digits parses, anything else (empty, letters, inner or outer
\* blanks) is an error and the returned value is 0
ParseFloat(s) ==
  IF s # <<>> /\ \A i \in 1..Len(s) : IsDigit(s[i])
  THEN [ok |-> TRUE, val |-> DecimalValue(s)]
  ELSE [ok |-> FALSE, val |-> 0]

\* ------------------------------------------------------------ pages
\* A row of a table body: its th and td cells, keyed by data-stat.
\* A table: its id attribute, the data-stats of the th cells of its thead,
\* and its tbody rows.  A page: the tables of the visible document and, per
\* HTML comment, the tables written inside that comment.

\* goquery: s.Find("td[data-stat='x']").Text() is "" when no cell matches
CellText(cells, stat) == IF stat \in DOMAIN cells THEN cells[stat] ELSE <<>>

\* table.Find("th[data-stat='x']").Length() > 0
HasTh(t, stat) ==
  stat \in t.head \/ \E i \in 1..Len(t.rows) : stat \in DOMAIN t.rows[i].th

\* table.Find("td[data-stat='x']").Length() > 0
HasTd(t, stat) == \E i \in 1..Len(t.rows) : stat \in DOMAIN t.rows[i].td

NoCells == [x \in {} |-> <<>>]

PlayerRow(player, team, goals, assists) ==
  [th |-> NoCells,
   td |-> ("player" :> player) @@ ("team" :> team) @@
          ("goals" :> goals) @@ ("assists" :> assists)]

KeeperRow(player, team, cs) ==
  [th |-> NoCells,
   td |-> ("player" :> player) @@ ("team" :> team) @@ ("clean_sheets" :> cs)]

TeamRow(team, points, gf, ga, w, d, l) ==
  [th |-> ("team" :> team),
   td |-> ("points" :> points) @@ ("goals_for" :> gf) @@
          ("goals_against" :> ga) @@ ("wins" :> w) @@ ("draws" :> d) @@
          ("losses" :> l)]

\* the table ids version B looks up
PlayerTableId == "stats_standard_9"
TeamTableId == "results2024-202591_overall"
KeeperTableId == "stats_keeper_9"

\* Page 1: a player table with a repeated (player, team), an unparsable
\* assists cell and a row without a player; a team table with an unparsable
\* goals_against cell; the goalkeeper table only inside a comment.
Page1 ==
  [visible |->
     << [id |-> PlayerTableId, head |-> {"player", "team"},
         rows |-> << PlayerRow(<<" ", "H">>, <<"M">>, <<"7">>, <<"2">>),
                     PlayerRow(<<"H">>, <<"M", " ">>, <<"9">>, <<"x">>),
                     PlayerRow(<<" ">>, <<"M">>, <<"3">>, <<"1">>) >>],
        [id |-> TeamTableId, head |-> {"team"},
         rows |-> << TeamRow(<<"L">>, <<"2", "8">>, <<"6">>, <<"x">>,
                             <<"9">>, <<"1">>, <<"2">>) >>] >>,
   comments |->
     << << [id |-> KeeperTableId, head |-> {"player"},
            rows |-> << KeeperRow(<<"A">>, <<"L">>, <<"4">>) >>] >> >>]

\* Page 2: other players and teams than page 1; the goalkeeper table is in
\* the visible document next to the player table and has a row with an empty
\* clean_sheets cell; the team table carries another season's id.
Page2 ==
  [visible |->
     << [id |-> PlayerTableId, head |-> {"player"},
         rows |-> << PlayerRow(<<"S">>, <<"L">>, <<"1">>, <<"1">>) >>],
        [id |-> KeeperTableId, head |-> {"player"},
         rows |-> << KeeperRow(<<"B">>, <<"M">>, <<>>),
                     KeeperRow(<<"A">>, <<"L">>, <<"5">>) >>],
        [id |-> "results2025-202691_overall", head |-> {},
         rows |-> << TeamRow(<<"M">>, <<"3">>, <<"4">>, <<"4">>,
                             <<"1">>, <<"0">>, <<"1">>) >>] >>,
   comments |-> << <<>> >>]

\* Page 3: one table, which matches no schema: it has a player header and
\* player and team cells but no goals and no clean_sheets column, and an id
\* that is none of the three.
Page3 ==
  [visible |->
     << [id |-> "stats_playing_time_9", head |-> {"player"},
         rows |-> << [th |-> NoCells,
                      td |-> ("player" :> <<"S">>) @@ ("team" :> <<"L">>)
                             @@ ("minutes" :> <<"9", "0">>)] >>] >>,
   comments |-> <<>>]

Pages == {Page1, Page2, Page3}

\* ------------------------------------------------------- extraction
RECURSIVE Flatten(_)
Flatten(ss) == IF ss = <<>> THEN <<>> ELSE Head(ss) \o Flatten(Tail(ss))

RowsAs(schema, rows) == [i \in 1..Len(rows) |-> [schema |-> schema, row |-> rows[i]]]

\* version A: doc.Find("table").Each, three signature tests per table
TableStepsA(t) ==
  (IF HasTh(t, "player") /\ HasTd(t, "goals") THEN RowsAs("player", t.rows) ELSE <<>>)
  \o (IF HasTh(t, "team") /\ HasTd(t, "points") THEN RowsAs("team", t.rows) ELSE <<>>)
  \o (IF HasTh(t, "player") /\ HasTd(t, "clean_sheets")
      THEN RowsAs("keeper", t.rows) ELSE <<>>)

\* version B: three lookups by table id over the whole document
RowsOfId(doc, id) ==
  Flatten([i \in 1..Len(doc) |-> IF doc[i].id = id THEN doc[i].rows ELSE <<>>])

TableStepsB(doc) ==
  RowsAs("player", RowsOfId(doc, PlayerTableId))
  \o RowsAs("team", RowsOfId(doc, TeamTableId))
  \o RowsAs("keeper", RowsOfId(doc, KeeperTableId))

\* extractCommentTables: one document per comment that contains "<table"
extractCommentTables(page) ==
  SelectSeq(page.comments, LAMBDA c : Len(c) > 0)

\* version C: the signature tests and "tbody tr" are evaluated on the whole
\* document d, not on one table
DocStepsC(d) ==
  LET allRows == Flatten([i \in 1..Len(d) |-> d[i].rows])
      hasTh(stat) == \E i \in 1..Len(d) : HasTh(d[i], stat)
      hasTd(stat) == \E i \in 1..Len(d) : HasTd(d[i], stat)
  IN (IF hasTh("player") /\ hasTd("goals") THEN RowsAs("player", allRows) ELSE <<>>)
     \o (IF hasTh("player") /\ hasTd("clean_sheets")
         THEN RowsAs("keeper", allRows) ELSE <<>>)
     \o (IF hasTh("team") /\ hasTd("points") THEN RowsAs("team", allRows) ELSE <<>>)

\* the row visits of one cycle, in the order the code makes them
Traversal(v, page) ==
  CASE v = "A" -> Flatten([i \in 1..Len(page.visible) |-> TableStepsA(page.visible[i])])
    [] v = "B" -> TableStepsB(page.visible)
    [] v = "C" -> LET allDocs == <<page.visible>> \o extractCommentTables(page)
                  IN Flatten([i \in 1..Len(allDocs) |-> DocStepsC(allDocs[i])])

Write(fam, label, val) == [fam |-> fam, label |-> label, val |-> val]

\* Set after `if g, err := strconv.ParseFloat(...); err == nil`
SetIfParsed(fam, label, text) ==
  LET p == ParseFloat(TrimSpace(text))
  IN IF p.ok THEN <<Write(fam, label, p.val)>> ELSE <<>>

\* Set of `x, _ := strconv.ParseFloat(...)`: the error is dropped
SetAlways(fam, label, text) ==
  <<Write(fam, label, ParseFloat(TrimSpace(text)).val)>>

NoCount == [players |-> 0, teams |-> 0, keepers |-> 0]

NoEffect == [writes |-> <<>>, count |-> NoCount]

\* mutant of PlayerRowEffect: the test of player and team is left out
PlayerRowEffectUnchecked(v, row) ==
  LET label == <<TrimSpace(CellText(row.td, "player")),
                 TrimSpace(CellText(row.td, "team"))>>
  IN [writes |-> SetIfParsed("topScorer", label, CellText(row.td, "goals"))
                 \o SetIfParsed("topAssists", label, CellText(row.td, "assists")),
      count |-> [NoCount EXCEPT !.players = 1]]

\* the body of the player-row closure
PlayerRowEffect(v, row) ==
  LET player == TrimSpace(CellText(row.td, "player"))
      team == TrimSpace(CellText(row.td, "team"))
      goals == CellText(row.td, "goals")
      assists == CellText(row.td, "assists")
      label == <<player, team>>
  IN IF player = <<>> \/ team = <<>> THEN NoEffect
     ELSE [writes |-> IF v = "C"
                      THEN SetAlways("topScorer", label, goals)
                           \o SetAlways("topAssists", label, assists)
                      ELSE SetIfParsed("topScorer", label, goals)
                           \o SetIfParsed("topAssists", label, assists),
           count |-> [NoCount EXCEPT !.players = 1]]

\* the body of the team-row closure
TeamRowEffect(v, row) ==
  LET team == TrimSpace(CellText(row.th, "team"))
      label == <<team>>
      set(fam, stat) == IF v = "C" THEN SetAlways(fam, label, CellText(row.td, stat))
                        ELSE SetIfParsed(fam, label, CellText(row.td, stat))
  IN IF team = <<>> THEN NoEffect
     ELSE [writes |-> set("teamPoints", "points") \o set("teamGoalsFor", "goals_for")
                      \o set("teamGoalsAgainst", "goals_against")
                      \o set("teamWins", "wins") \o set("teamDraws", "draws")
                      \o set("teamLosses", "losses"),
           count |-> [NoCount EXCEPT !.teams = 1]]

\* the body of the goalkeeper-row closure
KeeperRowEffect(v, row) ==
  LET player == TrimSpace(CellText(row.td, "player"))
      team == TrimSpace(CellText(row.td, "team"))
      cs == TrimSpace(CellText(row.td, "clean_sheets"))
      label == <<player, team>>
  IN IF v = "C"
     THEN IF player = <<>> \/ team = <<>> THEN NoEffect
          ELSE [writes |-> SetAlways("cleanSheets", label, cs),
                count |-> [NoCount EXCEPT !.keepers = 1]]
     ELSE IF player = <<>> \/ team = <<>> \/ cs = <<>> THEN NoEffect
          ELSE IF ParseFloat(cs).ok
               THEN [writes |-> <<Write("cleanSheets", label, ParseFloat(cs).val)>>,
                     count |-> [NoCount EXCEPT !.keepers = 1]]
               ELSE NoEffect

RowEffect(v, step) ==
  CASE step.schema = "player" -> PlayerRowEffect(v, step.row)
    [] step.schema = "team" -> TeamRowEffect(v, step.row)
    [] step.schema = "keeper" -> KeeperRowEffect(v, step.row)

\* mutant of SetGauge: Add in place of Set, a repeated label tuple sums up
SetGaugeAdds(fam, label, val) ==
  [l \in DOMAIN fam \cup {label} |->
     IF l = label THEN (IF l \in DOMAIN fam THEN fam[l] + val ELSE val) ELSE fam[l]]

\* GaugeVec.WithLabelValues(label...).Set(val): one series per label tuple
SetGauge(fam, label, val) ==
  [l \in DOMAIN fam \cup {label} |-> IF l = label THEN val ELSE fam[l]]

RECURSIVE ApplyWrites(_, _)
ApplyWrites(g, ws) ==
  IF ws = <<>> THEN g
  ELSE LET w == Head(ws)
       IN ApplyWrites([g EXCEPT ![w.fam] = SetGauge(g[w.fam], w.label, w.val)], Tail(ws))

\* GaugeVec.Reset(): the family has no series left
EmptyFamily == [l \in {} |-> 0]

EmptyGauges == [f \in Families |-> EmptyFamily]

\* ------------------------------------------------------------ state
VARIABLES
  variant,        \* which version of main.go the process runs
  proc,           \* "running", "panic" (unrecovered panic), "fatal" (log.Fatalf)
  mainPC,         \* position of main: "main", "startScraping", "serving"
  mainStep,       \* index of the statement of startScraping main is at
  tickerCreated,  \* time.NewTicker has been called
  tickerSpawned,  \* the `for range ticker.C` goroutine exists
  tickerC,        \* number of ticks buffered in ticker.C
  frame,          \* per goroutine: the activation of scrapeFBref, if any; its
                  \* gets, sleeps and overrun fields are history: the GETs and
                  \* Sleeps of the retry loop, the ticks fired since entry
  gauges,         \* per stats family: label tuple -> value
  scrapeSuccess,  \* fbref_scrape_success
  scrapeDuration, \* fbref_scrape_duration_seconds: the number of the cycle
                  \* whose time.Since(start) it holds, 0 while never set
  cyclesStarted,  \* history: calls of scrapeFBref so far
  ticksFired,     \* history: ticks the runtime timer has produced
  ticksConsumed,  \* history: ticks received by the loop
  preCycle,       \* history: the gauges when the latest cycle was entered
  last,           \* history: number, outcome ("ok", "fetch": no document was
                  \* fetched, "parse": it did not parse, "panic") and page of
                  \* the latest finished cycle
  lastRead        \* history: the latest collection of a family by /metrics
                  \* made while the running cycle was under way

vars == <<variant, proc, mainPC, mainStep, tickerCreated, tickerSpawned, tickerC,
          frame, gauges, scrapeSuccess, scrapeDuration, cyclesStarted, ticksFired,
          ticksConsumed, preCycle, last, lastRead>>

sched == <<mainPC, mainStep, tickerCreated, tickerSpawned>>
ticks == <<tickerC, ticksFired, ticksConsumed>>
health == <<scrapeSuccess, scrapeDuration>>

\* http.StatusOK
StatusOK == 200

NilResp == [nil |-> TRUE, StatusCode |-> 0]
Resp(code) == [nil |-> FALSE, StatusCode |-> code]

\* what client.Do can return: (nil, err) on a network error, (resp, err)
\* when the redirect policy fails (a 302 here), (resp, nil) with a status
\* that is 200 or not (a 403 here, the upstream's answer to blocked clients)
DoResults ==
  { [resp |-> NilResp, err |-> TRUE],
    [resp |-> Resp(302), err |-> TRUE],
    [resp |-> Resp(403), err |-> FALSE],
    [resp |-> Resp(StatusOK), err |-> FALSE] }

\* the body of a 200 response: readable HTML of some page, or a body whose
\* read fails, which is the only way goquery.NewDocumentFromReader errs
Bodies ==
  {[readable |-> TRUE, page |-> p] : p \in Pages}
  \cup {[readable |-> FALSE, page |-> Page3]}

NoBody == [readable |-> FALSE, page |-> Page3]

IdleFrame ==
  [pc |-> "idle", cycle |-> 0, attempt |-> 1, resp |-> NilResp, err |-> FALSE,
   body |-> NoBody, page |-> Page3, gets |-> 0, sleeps |-> <<>>,
   resetIdx |-> 1, ri |-> 1, count |-> NoCount, result |-> "none",
   overrun |-> 0, bodyOpen |-> FALSE, leaked |-> FALSE, deferClose |-> FALSE]

NoRead == [fam |-> "none", vals |-> EmptyFamily]

NoCycle ==
  [cycle |-> 0, outcome |-> "none", page |-> Page3, success |-> 0,
   leaked |-> FALSE]

Init ==
  /\ variant \in Variants
  /\ proc = "running"
  /\ mainPC = "main"
  /\ mainStep = 1
  /\ tickerCreated = FALSE
  /\ tickerSpawned = FALSE
  /\ tickerC = 0
  /\ frame = [g \in Goroutines |-> IdleFrame]
  /\ gauges = EmptyGauges
  /\ scrapeSuccess = 0
  /\ scrapeDuration = 0
  /\ cyclesStarted = 0
  /\ ticksFired = 0
  /\ ticksConsumed = 0
  /\ preCycle = EmptyGauges
  /\ last = NoCycle
  /\ lastRead = NoRead

InCycle(g) == frame[g].pc # "idle"

Running == \E g \in Goroutines : InCycle(g)

\* version C resets the families before it fetches, A and B fetch first
FirstPC(v) == IF v = "C" THEN "reset" ELSE "loop"

\* entry of scrapeFBref on goroutine g: start := time.Now().  What the
\* cycle before left open is on record from its return to this entry.
Enter(g) ==
  /\ cyclesStarted < MaxCycles
  /\ last' = [last EXCEPT !.leaked = FALSE]
  /\ frame' = [frame EXCEPT ![g] =
       [IdleFrame EXCEPT !.pc = FirstPC(variant), !.cycle = cyclesStarted + 1]]
  /\ cyclesStarted' = cyclesStarted + 1
  /\ preCycle' = gauges
  /\ lastRead' = NoRead

\* ------------------------------------------------------- scrapeFBref
At(g, pc) == proc = "running" /\ frame[g].pc = pc

\* time.Sleep(time.Duration(attempt*2) * time.Second)
Backoff(attempt) == attempt * BackoffFactor

\* mutant of LoopContinues: the loop bound off by one
LoopContinuesOnceMore(attempt) == attempt <= MaxAttempts + 1

\* for attempt := 1; attempt <= 3; attempt++
LoopContinues(attempt) == attempt <= MaxAttempts

\* err == nil && resp.StatusCode == http.StatusOK; && does not read resp
\* when err is set
Fetched(r) == ~r.err /\ r.resp.StatusCode = StatusOK

\* whether client.Do or client.Get hands the body over open: with a nil err
\* the caller has to close resp.Body; with an err resp is nil or, when the
\* redirect policy failed, has a body that is closed already
Opened(r) == ~r.err

\* `resp, err = ...` while the body of the response that resp held is open:
\* that body can no longer be closed
Overwrite(f) == f.leaked \/ f.bodyOpen

\* resp.Body.Close() on the response of this pass, behind `if resp != nil`
\* or after a nil err; closing a closed body changes nothing
CloseBody(open, r) == IF r.resp.nil THEN open ELSE FALSE

\* the loop is left: attempt goes out of scope, and with it the record of
\* the GETs and Sleeps of this loop
LeaveLoop(f) == [f EXCEPT !.attempt = 1, !.gets = 0, !.sleeps = <<>>]

\* version A, one pass of the retry loop up to the break or the log line
DoA(g) ==
  /\ variant = "A" /\ At(g, "loop")
  /\ LoopContinues(frame[g].attempt)
  /\ \E r \in DoResults, b \in Bodies :
       /\ b = NoBody \/ Fetched(r)
       /\ frame' = [frame EXCEPT ![g] =
            [@ EXCEPT !.resp = r.resp, !.err = r.err,
                      !.body = IF Fetched(r) THEN b ELSE NoBody,
                      !.gets = @ + 1,
                      !.leaked = Overwrite(frame[g]),
                      !.bodyOpen = Opened(r),
                      !.pc = IF Fetched(r) THEN "check" ELSE "sleep"]]
  /\ UNCHANGED <<variant, proc, sched, ticks, gauges, health, cyclesStarted,
                 preCycle, last, lastRead>>

\* version B, client.Get and the two error returns that follow it, with
\* `defer resp.Body.Close()` between them
DoB(g) ==
  /\ variant = "B" /\ At(g, "loop")
  /\ \E r \in DoResults, b \in Bodies :
       /\ b = NoBody \/ Fetched(r)
       /\ LET failed == r.err \/ r.resp.StatusCode # StatusOK
          IN /\ frame' = [frame EXCEPT ![g] =
                  [@ EXCEPT !.resp = r.resp, !.err = r.err,
                            !.body = IF failed THEN NoBody ELSE b,
                            !.gets = @ + 1,
                            !.leaked = Overwrite(frame[g]),
                            !.bodyOpen = Opened(r),
                            !.deferClose = ~r.err,
                            !.result = IF failed THEN "fetch" ELSE @,
                            !.pc = IF failed THEN "defer" ELSE "parse"]]
             /\ scrapeSuccess' = IF failed THEN 0 ELSE scrapeSuccess
  /\ UNCHANGED <<variant, proc, sched, ticks, gauges, scrapeDuration,
                 cyclesStarted, preCycle, last, lastRead>>

\* version C, fetchHTML: one pass of its loop up to `return doc, nil` or to
\* the Sleep of a failed attempt; a 200 whose body does not parse is a
\* failed attempt too.  Every pass closes the body it got.
DoC(g) ==
  /\ variant = "C" /\ At(g, "loop")
  /\ LoopContinues(frame[g].attempt)
  /\ \E r \in DoResults, b \in Bodies :
       /\ b = NoBody \/ Fetched(r)
       /\ LET failed == r.err \/ r.resp.StatusCode # StatusOK
              parsed == ~failed /\ b.readable
          IN frame' = [frame EXCEPT ![g] =
               IF parsed
               THEN [LeaveLoop(@) EXCEPT !.resp = r.resp, !.err = FALSE, !.body = b,
                                         !.leaked = Overwrite(frame[g]),
                                         !.bodyOpen = CloseBody(Opened(r), r),
                                         !.page = b.page, !.pc = "rows"]
               ELSE [@ EXCEPT !.resp = r.resp, !.err = r.err,
                              !.body = IF failed THEN NoBody ELSE b,
                              !.leaked = Overwrite(frame[g]),
                              !.bodyOpen = CloseBody(Opened(r), r),
                              !.gets = @ + 1, !.pc = "sleep"]]
  /\ UNCHANGED <<variant, proc, sched, ticks, gauges, health, cyclesStarted,
                 preCycle, last, lastRead>>

\* the Sleep that ends a failed pass, and attempt++
Sleep(g) ==
  /\ At(g, "sleep")
  /\ frame' = [frame EXCEPT ![g] =
       [@ EXCEPT !.sleeps = Append(@, Backoff(frame[g].attempt)),
                 !.attempt = @ + 1,
                 !.pc = IF LoopContinues(frame[g].attempt + 1) THEN "loop" ELSE "check"]]
  /\ UNCHANGED <<variant, proc, sched, ticks, gauges, health, cyclesStarted,
                 preCycle, last, lastRead>>

\* version A, after the loop: `if err != nil || resp.StatusCode != 200`,
\* whose log line reads resp.StatusCode whether or not resp is nil, and
\* `defer resp.Body.Close()` when the fetch succeeded
CheckA(g) ==
  /\ variant = "A" /\ At(g, "check")
  /\ IF frame[g].err \/ frame[g].resp.StatusCode # StatusOK
     THEN IF frame[g].resp.nil
          THEN /\ frame' = [frame EXCEPT ![g] =
                    [LeaveLoop(@) EXCEPT !.result = "panic", !.pc = "defer"]]
               /\ UNCHANGED scrapeSuccess
          ELSE /\ frame' = [frame EXCEPT ![g] =
                    [LeaveLoop(@) EXCEPT !.result = "fetch", !.pc = "defer"]]
               /\ scrapeSuccess' = 0
     ELSE /\ frame' = [frame EXCEPT ![g] =
               [LeaveLoop(@) EXCEPT !.deferClose = TRUE, !.pc = "parse"]]
          /\ UNCHANGED scrapeSuccess
  /\ UNCHANGED <<variant, proc, sched, ticks, gauges, scrapeDuration,
                 cyclesStarted, preCycle, last, lastRead>>

\* version C, after fetchHTML returned its error
CheckC(g) ==
  /\ variant = "C" /\ At(g, "check")
  /\ frame' = [frame EXCEPT ![g] = [LeaveLoop(@) EXCEPT !.result = "fetch", !.pc = "defer"]]
  /\ scrapeSuccess' = 0
  /\ UNCHANGED <<variant, proc, sched, ticks, gauges, scrapeDuration,
                 cyclesStarted, preCycle, last, lastRead>>

\* versions A and B: goquery.NewDocumentFromReader(resp.Body)
Parse(g) ==
  /\ At(g, "parse")
  /\ IF frame[g].body.readable
     THEN /\ frame' = [frame EXCEPT ![g] =
               [@ EXCEPT !.page = frame[g].body.page, !.pc = "reset"]]
          /\ UNCHANGED scrapeSuccess
     ELSE /\ frame' = [frame EXCEPT ![g] = [@ EXCEPT !.result = "parse", !.pc = "defer"]]
          /\ scrapeSuccess' = 0
  /\ UNCHANGED <<variant, proc, sched, ticks, gauges, scrapeDuration,
                 cyclesStarted, preCycle, last, lastRead>>

\* where the code goes after the ninth Reset()
AfterReset(v) == IF v = "C" THEN "loop" ELSE "rows"

\* one of the nine Reset() calls
Reset(g) ==
  /\ At(g, "reset")
  /\ gauges' = [gauges EXCEPT ![ResetOrder[frame[g].resetIdx]] = EmptyFamily]
  /\ frame' = [frame EXCEPT ![g] =
       [@ EXCEPT !.resetIdx = @ + 1,
                 !.pc = IF frame[g].resetIdx = Len(ResetOrder)
                        THEN AfterReset(variant) ELSE "reset"]]
  /\ UNCHANGED <<variant, proc, sched, ticks, health, cyclesStarted, preCycle,
                 last, lastRead>>

AddCount(a, b) ==
  [players |-> a.players + b.players, teams |-> a.teams + b.teams,
   keepers |-> a.keepers + b.keepers]

\* one call of a row closure: every Set the row makes.  A family gets at
\* most one Set per row, so what a collection of one family can observe is
\* the same as with one step per Set.
Row(g) ==
  /\ At(g, "rows")
  /\ LET steps == Traversal(variant, frame[g].page)
     IN /\ frame[g].ri <= Len(steps)
        /\ LET e == RowEffect(variant, steps[frame[g].ri])
           IN /\ gauges' = ApplyWrites(gauges, e.writes)
              /\ frame' = [frame EXCEPT ![g] =
                   [@ EXCEPT !.ri = @ + 1, !.count = AddCount(@, e.count)]]
  /\ UNCHANGED <<variant, proc, sched, ticks, health, cyclesStarted, preCycle,
                 last, lastRead>>

\* mutant of Done: scrapeSuccess.Inc() in place of Set(1)
DoneIncrements(g) ==
  /\ At(g, "rows")
  /\ frame[g].ri > Len(Traversal(variant, frame[g].page))
  /\ frame' = [frame EXCEPT ![g] = [@ EXCEPT !.result = "ok", !.pc = "defer"]]
  /\ scrapeSuccess' = scrapeSuccess + 1
  /\ UNCHANGED <<variant, proc, sched, ticks, gauges, scrapeDuration,
                 cyclesStarted, preCycle, last, lastRead>>

\* after the last row: the log line and scrapeSuccess.Set(1)
Done(g) ==
  /\ At(g, "rows")
  /\ frame[g].ri > Len(Traversal(variant, frame[g].page))
  /\ frame' = [frame EXCEPT ![g] = [@ EXCEPT !.result = "ok", !.pc = "defer"]]
  /\ scrapeSuccess' = 1
  /\ UNCHANGED <<variant, proc, sched, ticks, gauges, scrapeDuration,
                 cyclesStarted, preCycle, last, lastRead>>

\* the deferred calls, last registered first: resp.Body.Close() of versions
\* A and B, then scrapeDuration.Set, which also runs while a panic unwinds;
\* then the return to the caller, or the death of the process when no one
\* recovers the panic
Defer(g) ==
  /\ At(g, "defer")
  /\ scrapeDuration' = frame[g].cycle
  /\ last' = [cycle |-> frame[g].cycle, outcome |-> frame[g].result,
               page |-> IF frame[g].result = "ok" THEN frame[g].page ELSE Page3,
               success |-> scrapeSuccess,
               leaked |-> frame[g].leaked
                          \/ (frame[g].bodyOpen /\ ~frame[g].deferClose)]
  /\ preCycle' = EmptyGauges
  /\ lastRead' = NoRead
  /\ IF frame[g].result = "panic"
     THEN /\ proc' = "panic"
          /\ UNCHANGED <<frame, mainStep>>
     ELSE /\ proc' = proc
          /\ frame' = [frame EXCEPT ![g] = IdleFrame]
          /\ mainStep' = IF g = "main" THEN mainStep + 1 ELSE mainStep
  /\ UNCHANGED <<variant, mainPC, tickerCreated, tickerSpawned, ticks, gauges,
                 scrapeSuccess, cyclesStarted>>

\* ------------------------------------------------ main, startScraping
\* mutant of startScraping: the loop goroutine is started before the
\* initial run
startScrapingLoopFirst == <<"NewTicker", "go", "scrapeFBref">>

\* mutant of startScraping: the initial run is left out, the first cycle
\* waits for the first tick
startScrapingNoInitialRun == <<"NewTicker", "go">>

\* the statements of startScraping, in order
startScraping == <<"scrapeFBref", "NewTicker", "go">>

InStartScraping(stmt) ==
  /\ proc = "running" /\ mainPC = "startScraping"
  /\ ~InCycle("main")
  /\ mainStep <= Len(startScraping)
  /\ startScraping[mainStep] = stmt

\* versions A and C: net.Listen on the port, log.Fatalf when it is taken;
\* version B goes straight to startScraping
MainStart ==
  /\ proc = "running" /\ mainPC = "main"
  /\ \/ /\ mainPC' = "startScraping"
        /\ proc' = proc
     \/ /\ variant # "B"
        /\ proc' = "fatal"
        /\ mainPC' = mainPC
  /\ UNCHANGED <<variant, mainStep, tickerCreated, tickerSpawned, ticks, frame,
                 gauges, health, cyclesStarted, preCycle, last, lastRead>>

\* scrapeFBref() // initial run
InitialRun ==
  /\ InStartScraping("scrapeFBref")
  /\ Enter("main")
  /\ UNCHANGED <<variant, proc, sched, ticks, gauges, health>>

\* ticker := time.NewTicker(1 * time.Hour)
NewTicker ==
  /\ InStartScraping("NewTicker")
  /\ tickerCreated' = TRUE
  /\ mainStep' = mainStep + 1
  /\ UNCHANGED <<variant, proc, mainPC, tickerSpawned, ticks, frame, gauges,
                 health, cyclesStarted, preCycle, last, lastRead>>

\* go func() { for range ticker.C { ... } }()
GoLoop ==
  /\ InStartScraping("go")
  /\ tickerSpawned' = TRUE
  /\ mainStep' = mainStep + 1
  /\ UNCHANGED <<variant, proc, mainPC, tickerCreated, ticks, frame, gauges,
                 health, cyclesStarted, preCycle, last, lastRead>>

\* mutant of Serve: the server is brought up without waiting for
\* startScraping to return
ServeEarly ==
  /\ proc = "running" /\ mainPC = "startScraping"
  /\ \/ /\ mainPC' = "serving"
        /\ proc' = proc
     \/ /\ proc' = "fatal"
        /\ mainPC' = mainPC
  /\ UNCHANGED <<variant, mainStep, tickerCreated, tickerSpawned, ticks, frame,
                 gauges, health, cyclesStarted, preCycle, last, lastRead>>

\* http.Handle and http.ListenAndServe: the server is up, or log.Fatalf
Serve ==
  /\ proc = "running" /\ mainPC = "startScraping"
  /\ mainStep > Len(startScraping)
  /\ \/ /\ mainPC' = "serving"
        /\ proc' = proc
     \/ /\ proc' = "fatal"
        /\ mainPC' = mainPC
  /\ UNCHANGED <<variant, mainStep, tickerCreated, tickerSpawned, ticks, frame,
                 gauges, health, cyclesStarted, preCycle, last, lastRead>>

\* mutant of SendTick: every tick is queued, none is dropped
SendTickQueues(c) == c + 1

\* the runtime's send on ticker.C: it does not block, a tick that finds the
\* buffer full is dropped
SendTick(c) == IF c < TickerBuffer THEN c + 1 ELSE c

\* the hour has passed
Tick ==
  /\ proc = "running" /\ tickerCreated
  /\ ticksFired < MaxTicks
  /\ ticksFired' = ticksFired + 1
  /\ tickerC' = SendTick(tickerC)
  /\ frame' = [g \in Goroutines |->
       IF InCycle(g) THEN [frame[g] EXCEPT !.overrun = @ + 1] ELSE frame[g]]
  /\ UNCHANGED <<variant, proc, sched, ticksConsumed, gauges, health,
                 cyclesStarted, preCycle, last, lastRead>>

\* for range ticker.C { scrapeFBref() }: receive one tick, run one cycle
TickerLoop ==
  /\ proc = "running" /\ tickerSpawned
  /\ ~InCycle("ticker")
  /\ tickerC > 0
  /\ tickerC' = tickerC - 1
  /\ ticksConsumed' = ticksConsumed + 1
  /\ Enter("ticker")
  /\ UNCHANGED <<variant, proc, sched, ticksFired, gauges, health>>

\* promhttp.Handler() serving a GET /metrics: the registry collects each
\* family under that family's own lock, so one family is read at one instant
Metrics ==
  /\ proc = "running" /\ mainPC = "serving"
  /\ \E f \in Families :
       lastRead' = IF Running THEN [fam |-> f, vals |-> gauges[f]] ELSE NoRead
  /\ UNCHANGED <<variant, proc, sched, ticks, frame, gauges, health,
                 cyclesStarted, preCycle, last>>

Scrape(g) ==
  \/ DoA(g) \/ DoB(g) \/ DoC(g) \/ Sleep(g) \/ CheckA(g) \/ CheckC(g)
  \/ Parse(g) \/ Reset(g) \/ Row(g) \/ Done(g) \/ Defer(g)

Next ==
  \/ MainStart \/ InitialRun \/ NewTicker \/ GoLoop \/ Serve
  \/ Tick \/ TickerLoop \/ Metrics
  \/ \E g \in Goroutines : Scrape(g)

Spec == Init /\ [][Next]_vars

\* ------------------------------------------------------------ claims
\* every Set of one cycle over `page`, in order
AllWrites(v, page) ==
  LET steps == Traversal(v, page)
  IN Flatten([i \in 1..Len(steps) |-> RowEffect(v, steps[i]).writes])

\* the snapshot that holds exactly the label tuples written in one cycle
\* over `page`, each with the value of the last write to it
Extracted(v, page) ==
  LET w == AllWrites(v, page)
  IN [f \in Families |->
       LET at(l) == {i \in 1..Len(w) : w[i].fam = f /\ w[i].label = l}
           labels == {w[i].label : i \in {j \in 1..Len(w) : w[j].fam = f}}
       IN [l \in labels |->
            w[CHOOSE i \in at(l) : \A j \in at(l) : j <= i].val]]

\* g has made every gauge write of its cycle but the deferred duration
AtEnd(g) == frame[g].pc = "defer"

\* C1: a cycle whose fetch failed after all retries leaves every stats
\* family with the values it had when the cycle was entered, and has set
\* fbref_scrape_success to 0.
C1_FailedFetchKeepsSnapshot ==
  \A g \in Goroutines :
    AtEnd(g) /\ frame[g].result = "fetch" =>
      gauges = preCycle /\ scrapeSuccess = 0

\* C2: a collection of a stats family by /metrics made while a cycle was
\* under way saw the family as it was before the cycle or as it is after
\* the cycle, never an emptied or partly repopulated family.
C2_ReadsSeeWholeFamilies ==
  \A g \in Goroutines :
    AtEnd(g) /\ lastRead.fam # "none" =>
      lastRead.vals \in {preCycle[lastRead.fam], gauges[lastRead.fam]}

\* C3: once a cycle has succeeded, and until the next one is entered, every
\* stats family holds exactly the label tuples written in that cycle, one
\* entry per tuple with the value of the last row written.
C3_SnapshotIsThisCycle ==
  /\ \A g \in Goroutines :
       AtEnd(g) /\ frame[g].result = "ok" => gauges = Extracted(variant, frame[g].page)
  /\ ~Running /\ last.outcome = "ok" => gauges = Extracted(variant, last.page)

\* C3 witness: a successful cycle over page 1 that was entered with the
\* labels of page 2 published: the player of page 2 is gone, and the player
\* page 1 lists twice has the goals of the later row.
C3_Witness ==
  \E g \in Goroutines :
    /\ AtEnd(g) /\ frame[g].result = "ok" /\ frame[g].page = Page1
    /\ <<<<"S">>, <<"L">>>> \in DOMAIN preCycle["topScorer"]
    /\ DOMAIN gauges["topScorer"] = {<<<<"H">>, <<"M">>>>}
    /\ gauges["topScorer"][<<<<"H">>, <<"M">>>>] = 9

\* C4: the process never dies of a panic: scrapeFBref returns normally
\* whatever the attempts of a cycle come to.
C4_NoPanic == proc # "panic"

\* the last GET of g's retry loop came back with an error or a status
\* other than 200
LastGetFailed(g) == frame[g].err \/ frame[g].resp.StatusCode # StatusOK

\* g is inside its retry loop with a GET behind it: a Sleep and, if the
\* budget allows, another GET are still to come
Retrying(g) == frame[g].pc \in {"sleep", "loop"} /\ frame[g].gets >= 1

\* C5 as stated: a cycle issues at most 3 GETs, and goes on to another
\* attempt only after a GET that ended in a network error or a non-200
\* response, never after one that returned 200.
C5_RetryOnlyAfterFailedGet ==
  \A g \in Goroutines :
    /\ frame[g].gets <= MaxAttempts
    /\ Retrying(g) => LastGetFailed(g)

\* C5 as amended: a cycle issues at most 3 GETs, and goes on to another
\* attempt only after a GET that ended in a network error, in a non-200
\* response, or in a 200 response whose body fetchHTML could not parse;
\* never after a GET that returned 200 with a body that parsed.
C5_RetryOnlyAfterFailedAttempt ==
  \A g \in Goroutines :
    /\ frame[g].gets <= MaxAttempts
    /\ Retrying(g) => LastGetFailed(g) \/ ~frame[g].body.readable

\* C5 witness: fetchHTML about to issue its third GET, after a second GET
\* that returned 200 with a body that did not parse.
C5_Witness ==
  \E g \in Goroutines :
    /\ frame[g].pc = "loop" /\ frame[g].gets = 2
    /\ ~LastGetFailed(g) /\ ~frame[g].body.readable

\* the waits due between n attempts: k * 2 seconds after attempt k < n
BackoffsBetween(n) == [k \in 1..(n - 1) |-> k * BackoffFactor]

\* C6: when the retry loop is left after n attempts, the waits taken are
\* those between the attempts, 2k seconds after attempt k < n, and none
\* after the last attempt.
C6_BackoffOnlyBetweenAttempts ==
  \A g \in Goroutines :
    frame[g].pc = "check" => frame[g].sleeps = BackoffsBetween(frame[g].gets)

\* C7: when no cycle is under way, or the process has died in one, the
\* duration gauge is that of the latest finished cycle and
\* fbref_scrape_success is 1 if that cycle fetched and parsed its document
\* and 0 otherwise.
C7_HealthGaugesOfLatestCycle ==
  (~Running \/ proc = "panic") /\ last.outcome # "none" =>
    /\ scrapeDuration = last.cycle
    /\ scrapeSuccess = IF last.outcome = "ok" THEN 1 ELSE 0

\* C8: at most one goroutine is inside scrapeFBref, and a cycle is under
\* way only when every cycle entered before it has finished and set the
\* health gauges.
C8_CyclesSerialized ==
  /\ ~(InCycle("main") /\ InCycle("ticker"))
  /\ \A g \in Goroutines :
       InCycle(g) =>
         /\ frame[g].cycle = cyclesStarted
         /\ proc = "running" => last.cycle = cyclesStarted - 1
                                /\ scrapeDuration = cyclesStarted - 1

\* C8 witness: a tick-driven cycle resetting the families after the cycle
\* before it has finished.
C8_Witness ==
  /\ frame["ticker"].pc = "reset" /\ frame["ticker"].cycle = 3
  /\ last.cycle = 2 /\ mainPC = "serving"

\* C9: at most one tick waits for the loop however many fired while it was
\* busy, and the cycles entered are the initial one plus one per tick the
\* loop received.
C9_NoCatchUp ==
  /\ tickerC <= TickerBuffer
  /\ ticksConsumed + tickerC <= ticksFired
  /\ cyclesStarted <= 1 + ticksConsumed

\* C9 witness: two ticks fired while one tick-driven cycle was under way,
\* and one tick is waiting.
C9_Witness ==
  /\ InCycle("ticker") /\ frame["ticker"].overrun = 2
  /\ tickerC = 1 /\ ticksFired = ticksConsumed + 2

\* a step of startScraping or of the ticker loop that leads to the next
\* cycle: creating the ticker, starting the loop, a tick, the receive
SchedulerStep == NewTicker \/ GoLoop \/ Tick \/ TickerLoop

\* cycle n has ended and no later cycle has been entered
CycleEnded(n) == last.cycle = n /\ cyclesStarted = n

\* the ticker can still deliver a tick
TicksLeft == tickerC > 0 \/ ticksFired < MaxTicks

\* C10: no outcome of a cycle stops the scheduling: once a cycle has ended,
\* and while the ticker has ticks to deliver and the server has not exited
\* at startup, the scheduler can take its next step towards a further cycle.
C10_SchedulingGoesOn ==
  \A n \in 1..(MaxCycles - 1) :
    CycleEnded(n) /\ TicksLeft /\ proc # "fatal" => ENABLED SchedulerStep

\* C11: the first cycle is entered by main before the ticker exists, so
\* before any tick is awaited; every cycle the loop runs on a tick is the
\* second cycle or a later one, and the ticker exists only once the first
\* cycle has finished.
C11_FirstCycleAtStart ==
  /\ InCycle("main") =>
       frame["main"].cycle = 1 /\ ~tickerCreated /\ ticksFired = 0
  /\ InCycle("ticker") => frame["ticker"].cycle >= 2
  /\ tickerCreated => last.cycle >= 1

\* C11 witness: the loop inside the cycle it entered on the first tick it
\* received, which is cycle 2.
C11_Witness ==
  /\ InCycle("ticker") /\ ticksConsumed = 1
  /\ frame["ticker"].cycle = 2 /\ last.cycle = 1

\* a text that is empty once trimmed: nothing but blanks
Blank(text) == \A i \in 1..Len(text) : IsSpace(text[i])

\* an identity field of a row visited under a schema is missing or blank:
\* the team header cell of a team row, the player or the team cell of the
\* other rows
IdentityBlank(step) ==
  IF step.schema = "team" THEN Blank(CellText(step.row.th, "team"))
  ELSE Blank(CellText(step.row.td, "player")) \/ Blank(CellText(step.row.td, "team"))

\* C12: a row whose identity field is empty after trimming sets no gauge,
\* and no entry of any stats family carries an empty label value.
C12_NoBlankLabels ==
  /\ \A g \in Goroutines :
       frame[g].pc = "rows" =>
         LET steps == Traversal(variant, frame[g].page)
         IN \A i \in 1..Len(steps) :
              IdentityBlank(steps[i]) => RowEffect(variant, steps[i]).writes = <<>>
  /\ \A f \in Families : \A l \in DOMAIN gauges[f] :
       \A i \in 1..Len(l) : ~Blank(l[i])

\* C12 witness: the rows of page 1 have been visited, the player row without
\* a player among them, and the player family has its one entry.
C12_Witness ==
  \E g \in Goroutines :
    /\ AtEnd(g) /\ frame[g].result = "ok" /\ frame[g].page = Page1
    /\ Cardinality(DOMAIN gauges["topScorer"]) = 1
    /\ \E i \in 1..Len(Traversal(variant, Page1)) :
         IdentityBlank(Traversal(variant, Page1)[i])

\* the numeric fields of a schema and the family each is published in
FieldsOf(schema) ==
  CASE schema = "player" ->
         {[stat |-> "goals", fam |-> "topScorer"],
          [stat |-> "assists", fam |-> "topAssists"]}
    [] schema = "keeper" -> {[stat |-> "clean_sheets", fam |-> "cleanSheets"]}
    [] schema = "team" ->
         {[stat |-> "points", fam |-> "teamPoints"],
          [stat |-> "goals_for", fam |-> "teamGoalsFor"],
          [stat |-> "goals_against", fam |-> "teamGoalsAgainst"],
          [stat |-> "wins", fam |-> "teamWins"],
          [stat |-> "draws", fam |-> "teamDraws"],
          [stat |-> "losses", fam |-> "teamLosses"]}

\* the label tuple of a row visited under a schema
LabelOf(step) ==
  IF step.schema = "team" THEN <<TrimSpace(CellText(step.row.th, "team"))>>
  ELSE <<TrimSpace(CellText(step.row.td, "player")),
         TrimSpace(CellText(step.row.td, "team"))>>

\* the rows a cycle in its row loop has visited so far
Visited(g) == SubSeq(Traversal(variant, frame[g].page), 1, frame[g].ri - 1)

\* C13: for every visited row with valid identity fields, a numeric field
\* is set, with its parsed value, if and only if its trimmed text parses;
\* a field that does not parse makes no write (it is not published as 0).
C13_SetIffParsed ==
  \A g \in Goroutines :
    frame[g].pc = "rows" =>
      \A i \in 1..Len(Visited(g)) :
        LET step == Visited(g)[i]
            writes == RowEffect(variant, step).writes
        IN ~IdentityBlank(step) =>
             \A fld \in FieldsOf(step.schema) :
               LET p == ParseFloat(TrimSpace(CellText(step.row.td, fld.stat)))
                   set == SelectSeq(writes, LAMBDA w : w.fam = fld.fam)
               IN IF p.ok THEN set = <<Write(fld.fam, LabelOf(step), p.val)>>
                  ELSE set = <<>>

\* the page with every table of its comments placed in the visible
\* document, after the tables that are there already
Uncommented(page) ==
  [visible |-> page.visible \o Flatten(page.comments), comments |-> <<>>]

\* the row counts of one cycle over `page`
RECURSIVE SumCounts(_, _)
SumCounts(v, steps) ==
  IF steps = <<>> THEN NoCount
  ELSE AddCount(SumCounts(v, Tail(steps)), RowEffect(v, Head(steps)).count)

\* C14: a successful cycle over a page that has a table inside an HTML
\* comment ends with the gauge snapshot and the row counts of the page that
\* has the same table in the visible document.
C14_CommentTableAsVisible ==
  \A g \in Goroutines :
    AtEnd(g) /\ frame[g].result = "ok" /\ Flatten(frame[g].page.comments) # <<>> =>
      /\ gauges = Extracted(variant, Uncommented(frame[g].page))
      /\ frame[g].count = SumCounts(variant, Traversal(variant, Uncommented(frame[g].page)))

\* g is at the end of a successful cycle over the page of the cycle before
\* it, which was successful too
SamePageTwice(g) ==
  /\ AtEnd(g) /\ frame[g].result = "ok"
  /\ last.cycle = frame[g].cycle - 1 /\ last.outcome = "ok"
  /\ last.page = frame[g].page

\* C15: the second of two consecutive successful cycles over the same page
\* ends with the stats snapshot and the fbref_scrape_success that the first
\* one left, whatever the snapshot was before the first.
C15_SamePageSameSnapshot ==
  \A g \in Goroutines :
    SamePageTwice(g) => gauges = preCycle /\ scrapeSuccess = last.success

\* C15 witness: cycles 2 and 3 both succeed over page 1 and the snapshot is
\* that of page 1.
C15_Witness ==
  /\ SamePageTwice("ticker") /\ frame["ticker"].cycle = 3
  /\ frame["ticker"].page = Page1
  /\ gauges = Extracted(variant, Page1) /\ scrapeSuccess = 1

\* a table that has the column signature of one of the three schemas or the
\* id of one of the three tables
Matches(t) ==
  \/ HasTh(t, "player") /\ (HasTd(t, "goals") \/ HasTd(t, "clean_sheets"))
  \/ HasTh(t, "team") /\ HasTd(t, "points")
  \/ t.id \in {PlayerTableId, TeamTableId, KeeperTableId}

\* no table of the page, visible or commented, matches a schema
NoMatchingTable(page) ==
  LET tables == page.visible \o Flatten(page.comments)
  IN \A i \in 1..Len(tables) : ~Matches(tables[i])

HasSignature(t, schema) ==
  CASE schema = "player" -> HasTh(t, "player") /\ HasTd(t, "goals")
    [] schema = "keeper" -> HasTh(t, "player") /\ HasTd(t, "clean_sheets")
    [] schema = "team" -> HasTh(t, "team") /\ HasTd(t, "points")

\* the tables of the page that contain the row
TablesWith(page, row) ==
  LET tables == page.visible \o Flatten(page.comments)
  IN {tables[i] : i \in {j \in 1..Len(tables) :
                           \E k \in 1..Len(tables[j].rows) : tables[j].rows[k] = row}}

\* C17: a visited row sets a gauge of a schema only if the table that
\* contains the row has that schema's column signature itself.
C17_ClassifiedPerTable ==
  \A g \in Goroutines :
    frame[g].pc = "rows" =>
      \A i \in 1..Len(Visited(g)) :
        LET step == Visited(g)[i]
        IN RowEffect(variant, step).writes # <<>> =>
             \E t \in TablesWith(frame[g].page, step.row) : HasSignature(t, step.schema)

\* C18: while the server is up the first cycle has ended by returning, so
\* that main is in no cycle, the duration gauge has been set, and
\* fbref_scrape_success has been set by that cycle; a read of /metrics is
\* made only with the server up.
C18_ServedAfterFirstCycle ==
  /\ mainPC = "serving" =>
       /\ ~InCycle("main") /\ cyclesStarted >= 1
       /\ last.cycle >= 1 /\ scrapeDuration >= 1
       /\ last.cycle = 1 =>
            /\ last.outcome \in {"ok", "fetch", "parse"}
            /\ last.success = IF last.outcome = "ok" THEN 1 ELSE 0
  /\ lastRead # NoRead => mainPC = "serving"

\* C18 witness: a read of /metrics, made during the second cycle; the first
\* cycle failed after its three attempts and their waits.
C18_Witness ==
  /\ mainPC = "serving" /\ lastRead # NoRead
  /\ last.cycle = 1 /\ last.outcome = "fetch" /\ last.success = 0
  /\ scrapeDuration = 1

\* C19: when a cycle has returned, every response body it obtained has
\* been closed.
C19_BodiesClosed == last.outcome # "none" => ~last.leaked

====
